---- MODULE Spec2Model ----
(***************************************************************************)
(* A model of the tiny_db_exp storage engine (src/src/datastore).          *)
(*                                                                         *)
(* Files are sequences of bytes (naturals below 256).  The engine is the   *)
(* EmbeddedDatabase struct: a file handle, the offset index and the path.  *)
(* POSIX file semantics are assumed: rename() replaces the directory entry *)
(* of the target, and a handle opened before the rename keeps referring to *)
(* the replaced (now unlinked) file.                                       *)
(*                                                                         *)
(* Spec and FaultSpec run the engine's methods whole, from one caller.     *)
(* ThreadSpec, PanicSpec and CrashSpec run them a step at a time from two  *)
(* threads that share one ThreadSafeDB, a Mutex around the engine.         *)
(***************************************************************************)
EXTENDS Naturals, Integers, Sequences, FiniteSets, TLC

VARIABLES
    disk,      \* bytes of the file at self.path
    compact,   \* the file at self.path + ".compact": [exists, bytes]
    orphan,    \* bytes of an unlinked file that self.file still refers to
    handle,    \* what self.file refers to: "path", "unlinked" or "closed"
    index,     \* self.index: key -> byte offset
    cursor,    \* the position self.file stands at
    result,    \* outcome of the open, set, delete or close that ran last
    got,       \* what get returned, when get is the operation that ran last
    hist,      \* per key: what the calls so far make the caller expect
    torn,      \* bytes of a torn final entry left at the end of disk by a crash
    pre,       \* the files, handle, index and result before the last operation
    nops,      \* operations run so far
    faults,    \* I/O failures, crashes and panics injected so far
    mutex,     \* the Mutex of ThreadSafeDB: [owner, poisoned]
    pc,        \* per thread: where it is in its call on the ThreadSafeDB
    call,      \* per thread: the call it is making and that call's locals
    ret,       \* per thread: what its last call returned
    closing,   \* close's locals while it is running: [compact_index]
    serial     \* the calls so far run one at a time, in lock order

\* The variables of the ThreadSafeDB layer; the single-threaded
\* specifications leave them alone.
tvars == <<mutex, pc, call, ret, closing, serial>>

vars == <<disk, compact, orphan, handle, index, cursor, result, got, hist, torn, pre, nops,
          faults, mutex, pc, call, ret, closing, serial>>

(***************************************************************************)
(* Bounds of the model.                                                    *)
(***************************************************************************)
MaxOps == 4
MaxFaults == 1
MaxCalls == 3

KeyA == <<97>>
KeyB == <<98>>
Keys == {KeyA, KeyB}

ValEmpty == << >>
ValX == <<120>>
ValYZ == <<121, 122>>
Vals == {ValEmpty, ValX, ValYZ}

(***************************************************************************)
(* Option<String>: None is the empty tuple, Some(v) the 1-tuple of v.      *)
(***************************************************************************)
None == << >>
Some(v) == << v >>

(***************************************************************************)
(* u64 little-endian.  The model's integers are 32 bits wide, so a decoded *)
(* length of 2^31 or more is reported as Huge; the code only ever compares *)
(* such a length with the bytes left in a file, all far smaller.           *)
(***************************************************************************)
Huge == 127 * 256 * 256 * 256

to_le_bytes(n) ==
    << n % 256, (n \div 256) % 256, (n \div 65536) % 256,
       (n \div 16777216) % 256, 0, 0, 0, 0 >>

from_le_bytes(b) ==
    IF b[5] = 0 /\ b[6] = 0 /\ b[7] = 0 /\ b[8] = 0 /\ b[4] < 127
    THEN b[1] + 256 * b[2] + 65536 * b[3] + 16777216 * b[4]
    ELSE Huge

(***************************************************************************)
(* bincode (fixed-width integers) of Record {key, val}.                    *)
(***************************************************************************)
serialize(key, val) ==
    to_le_bytes(Len(key)) \o key \o to_le_bytes(Len(val)) \o val

\* Trailing bytes after the two strings are accepted; every byte of the
\* model is below 128, so the strings are always valid UTF-8.
deserialize(buf) ==
    IF Len(buf) < 8 THEN [ok |-> FALSE, key |-> << >>, val |-> << >>]
    ELSE LET klen == from_le_bytes(SubSeq(buf, 1, 8)) IN
         IF klen > Len(buf) - 8 \/ Len(buf) - 8 - klen < 8
         THEN [ok |-> FALSE, key |-> << >>, val |-> << >>]
         ELSE LET vlen == from_le_bytes(SubSeq(buf, 9 + klen, 16 + klen)) IN
              IF vlen > Len(buf) - 16 - klen
              THEN [ok |-> FALSE, key |-> << >>, val |-> << >>]
              ELSE [ok  |-> TRUE,
                    key |-> SubSeq(buf, 9, 8 + klen),
                    val |-> SubSeq(buf, 17 + klen, 16 + klen + vlen)]

\* The bytes one set/delete appends: [8-byte len of record][record bytes].
Entry(key, val) ==
    to_le_bytes(Len(serialize(key, val))) \o serialize(key, val)

(***************************************************************************)
(* HashMap<String, u64> as a function.                                     *)
(***************************************************************************)
EmptyIndex == << >>

insert(idx, key, off) ==
    [k \in (DOMAIN idx) \cup {key} |-> IF k = key THEN off ELSE idx[k]]

remove(idx, key) ==
    [k \in (DOMAIN idx) \ {key} |-> idx[k]]

(***************************************************************************)
(* Reading one entry at an offset: seek, read_exact the length, read_exact *)
(* the record.                                                             *)
(***************************************************************************)
ReadEntry(file, position) ==
    IF Len(file) - position < 8
    THEN [ok |-> FALSE, short |-> TRUE, len |-> 0, lenbuf |-> << >>, buf |-> << >>]
    ELSE LET lenbuf == SubSeq(file, position + 1, position + 8)
             len == from_le_bytes(lenbuf)
         IN IF len > Len(file) - position - 8
            THEN [ok |-> FALSE, short |-> FALSE, len |-> len,
                  lenbuf |-> lenbuf, buf |-> << >>]
            ELSE [ok |-> TRUE, short |-> FALSE, len |-> len, lenbuf |-> lenbuf,
                  buf |-> SubSeq(file, position + 9, position + 8 + len)]

(***************************************************************************)
(* EmbeddedDatabase::new, the loop that reads the file and populates the   *)
(* index.  A length prefix that cannot be read ends the loop; a record     *)
(* that cannot be read or decoded is returned as an error.                 *)
(***************************************************************************)
\* The loop with the first entry of a key winning over later ones, which C2
\* must tell apart from replay.
RECURSIVE replayFirstWins(_, _, _)
replayFirstWins(file, position, idx) ==
    IF ~(position < Len(file)) THEN [ok |-> TRUE, index |-> idx]
    ELSE LET e == ReadEntry(file, position) IN
         IF e.short THEN [ok |-> TRUE, index |-> idx]
         ELSE IF ~e.ok THEN [ok |-> FALSE, index |-> EmptyIndex]
         ELSE LET record == deserialize(e.buf) IN
              IF ~record.ok THEN [ok |-> FALSE, index |-> EmptyIndex]
              ELSE replayFirstWins(file, position + 8 + e.len,
                       IF record.val = << >> THEN remove(idx, record.key)
                       ELSE IF record.key \in DOMAIN idx THEN idx
                       ELSE insert(idx, record.key, position))

RECURSIVE replay(_, _, _)
replay(file, position, idx) ==
    IF ~(position < Len(file)) THEN [ok |-> TRUE, index |-> idx]
    ELSE LET e == ReadEntry(file, position) IN
         IF e.short THEN [ok |-> TRUE, index |-> idx]
         ELSE IF ~e.ok THEN [ok |-> FALSE, index |-> EmptyIndex]
         ELSE LET record == deserialize(e.buf) IN
              IF ~record.ok THEN [ok |-> FALSE, index |-> EmptyIndex]
              ELSE replay(file, position + 8 + e.len,
                       IF record.val = << >> THEN remove(idx, record.key)
                       ELSE insert(idx, record.key, position))

new(file) == replay(file, 0, EmptyIndex)

(***************************************************************************)
(* EmbeddedDatabase::get, set and delete on the file the handle refers to. *)
(***************************************************************************)
get(file, idx, key) ==
    IF key \notin DOMAIN idx THEN [ok |-> TRUE, val |-> None]
    ELSE LET e == ReadEntry(file, idx[key]) IN
         IF ~e.ok THEN [ok |-> FALSE, val |-> None]
         ELSE LET record == deserialize(e.buf) IN
              IF ~record.ok THEN [ok |-> FALSE, val |-> None]
              ELSE [ok |-> TRUE, val |-> Some(record.val)]

\* Where get leaves the file: behind the record it read (a read that fails
\* has consumed the file to its end).
GetCursor(file, idx, key, pos) ==
    IF key \notin DOMAIN idx THEN pos
    ELSE LET e == ReadEntry(file, idx[key]) IN
         IF e.ok THEN idx[key] + 8 + e.len ELSE Len(file)

\* set recording the position the file has after the append instead of the
\* one it had before, which C22 must tell apart from set.
setOffsetAfterAppend(file, idx, key, val) ==
    [file  |-> file \o Entry(key, val),
     index |-> insert(idx, key, Len(file) + Len(Entry(key, val)))]

\* set writing where the file stands instead of seeking to its end, which
\* C21 must tell apart from set.
setAtCursor(file, idx, key, val) ==
    [file  |-> SubSeq(file, 1, cursor) \o Entry(key, val)
               \o SubSeq(file, cursor + Len(Entry(key, val)) + 1, Len(file)),
     index |-> insert(idx, key, cursor)]

set(file, idx, key, val) ==
    [file  |-> file \o Entry(key, val),
     index |-> insert(idx, key, Len(file))]

\* delete returning early for a key the index does not hold, which C20 must
\* tell apart from delete.
deleteSkipsAbsent(file, idx, key) ==
    IF key \notin DOMAIN idx THEN [file |-> file, index |-> idx]
    ELSE [file  |-> file \o Entry(key, << >>),
          index |-> remove(idx, key)]

delete(file, idx, key) ==
    [file  |-> file \o Entry(key, << >>),
     index |-> remove(idx, key)]

(***************************************************************************)
(* EmbeddedDatabase::close.  The keys of the HashMap come in an arbitrary  *)
(* order; the compact file is opened without truncation and written from   *)
(* offset 0, so bytes it already held beyond what is written stay.         *)
(***************************************************************************)
Orders(S) ==
    {s \in [1..Cardinality(S) -> S] : \A i, j \in 1..Cardinality(S) : s[i] = s[j] => i = j}

Overwrite(old, written) ==
    written \o SubSeq(old, Len(written) + 1, Len(old))

\* The loop recording a key's offset after new_position was advanced, which
\* C4 must tell apart from Rewrite.
RECURSIVE RewriteOffsetAfter(_, _, _, _, _)
RewriteOffsetAfter(file, idx, keys, out, compact_index) ==
    IF keys = << >> THEN [bytes |-> out, index |-> compact_index]
    ELSE LET key == Head(keys)
             e == ReadEntry(file, idx[key])
         IN RewriteOffsetAfter(file, idx, Tail(keys),
                    out \o e.lenbuf \o e.buf,
                    insert(compact_index, key, Len(out) + 8 + e.len))

RECURSIVE Rewrite(_, _, _, _, _)
Rewrite(file, idx, keys, out, compact_index) ==
    IF keys = << >> THEN [bytes |-> out, index |-> compact_index]
    ELSE LET key == Head(keys)
             e == ReadEntry(file, idx[key])
         IN Rewrite(file, idx, Tail(keys),
                    out \o e.lenbuf \o e.buf,
                    insert(compact_index, key, Len(out)))

\* close writing the live entries behind the log instead of into a file of
\* their own, which C23 must tell apart from close.
closeAppends(file, idx, keys, stale) ==
    LET r == Rewrite(file, idx, keys, file, EmptyIndex)
    IN [file |-> r.bytes, index |-> r.index]

close(file, idx, keys, stale) ==
    LET r == Rewrite(file, idx, keys, << >>, EmptyIndex)
    IN [file |-> Overwrite(stale, r.bytes), index |-> r.index]

\* Where close's loop leaves self.file: behind the entry of the last key.
CopyCursor(file, idx, keys, pos) ==
    IF keys = << >> THEN pos
    ELSE idx[keys[Len(keys)]] + 8 + ReadEntry(file, idx[keys[Len(keys)]]).len

(***************************************************************************)
(* State of the engine and of the caller's expectations.                   *)
(***************************************************************************)
HandleFile == IF handle = "path" THEN disk ELSE orphan

StaleCompact == IF compact.exists THEN compact.bytes ELSE << >>

NoCompact == [exists |-> FALSE, bytes |-> << >>]

NoGet == [key |-> << >>, ok |-> TRUE, val |-> None]

NoHist == [set |-> None, del |-> FALSE, emp |-> FALSE]

\* What the last call returned.  err is the kind of the boxed error: a
\* DbError variant, or "Other" for an std::io or bincode error.
Res(op, key, ok, val) ==
    [op |-> op, key |-> key, ok |-> ok, val |-> val,
     err |-> IF ok THEN "None" ELSE "Other"]

\* What get(key) returns on the engine as it stands.
GetNow(key) == get(HandleFile, index, key)

\* What get(key) returns on a new engine opened on the path.
GetReopened(key) ==
    LET db == new(disk) IN
    IF db.ok THEN get(disk, db.index, key) ELSE [ok |-> FALSE, val |-> None]

Snapshot ==
    [disk |-> disk, orphan |-> orphan, handle |-> handle, index |-> index,
     cursor |-> cursor, result |-> result]

\* The engine's file and get as they were before the last operation.
PreFile == IF pre.handle = "path" THEN pre.disk ELSE pre.orphan

PreGet(key) == get(PreFile, pre.index, key)

WriteHandle(bytes) ==
    IF handle = "path"
    THEN disk' = bytes /\ orphan' = orphan /\ torn' = 0 /\ cursor' = Len(bytes)
    ELSE orphan' = bytes /\ disk' = disk /\ torn' = torn /\ cursor' = Len(bytes)

(***************************************************************************)
(* ThreadSafeDB: clones of one Arc<Mutex<EmbeddedDatabase>>, one per       *)
(* thread.                                                                 *)
(***************************************************************************)
Threads == {"t1", "t2"}

NoThread == "none"

\* A call and its locals: the order close iterates the keys in, the
\* position set and delete seek to, and the index as the call found it.
NoCall == [op |-> "none", key |-> << >>, val |-> << >>, keys |-> << >>,
           position |-> 0, before |-> EmptyIndex]

\* The reference run: file and index after the calls that acquired the lock
\* so far, each run whole; expect is what each thread's get returns in the
\* reference run, crash and crashpc the call that a crash of the process
\* interrupted and where.
NoSerial ==
    [file |-> << >>, index |-> EmptyIndex,
     expect |-> [t \in Threads |-> [ok |-> TRUE, val |-> None]],
     crash |-> NoCall, crashpc |-> "idle"]

Init ==
    /\ disk = << >>
    /\ compact = NoCompact
    /\ orphan = << >>
    /\ handle = "path"
    /\ index = EmptyIndex
    /\ cursor = 0
    /\ result = Res("open", << >>, TRUE, None)
    /\ got = NoGet
    /\ hist = [k \in Keys |-> NoHist]
    /\ torn = 0
    /\ pre = [disk |-> << >>, orphan |-> << >>, handle |-> "path",
              index |-> EmptyIndex, cursor |-> 0,
              result |-> Res("open", << >>, TRUE, None)]
    /\ nops = 0
    /\ faults = 0
    /\ mutex = [owner |-> NoThread, poisoned |-> FALSE]
    /\ pc = [t \in Threads |-> "idle"]
    /\ call = [t \in Threads |-> NoCall]
    /\ ret = [t \in Threads |-> Res("none", << >>, TRUE, None)]
    /\ closing = [compact_index |-> EmptyIndex]
    /\ serial = NoSerial

Set(key, val) ==
    /\ handle # "closed"
    /\ nops < MaxOps
    /\ LET db == set(HandleFile, index, key, val) IN
        /\ WriteHandle(db.file)
        /\ index' = db.index
    /\ result' = Res("set", key, TRUE, Some(val))
    /\ hist' = [hist EXCEPT ![key] =
                  IF val = << >> THEN [@ EXCEPT !.emp = TRUE]
                  ELSE [set |-> Some(val), del |-> FALSE, emp |-> FALSE]]
    /\ got' = NoGet
    /\ pre' = Snapshot
    /\ UNCHANGED tvars
    /\ nops' = nops + 1
    /\ UNCHANGED <<compact, handle, faults>>

Delete(key) ==
    /\ handle # "closed"
    /\ nops < MaxOps
    /\ LET db == delete(HandleFile, index, key) IN
        /\ WriteHandle(db.file)
        /\ index' = db.index
    /\ result' = Res("delete", key, TRUE, None)
    /\ hist' = [hist EXCEPT ![key] = [@ EXCEPT !.del = TRUE, !.emp = FALSE]]
    /\ got' = NoGet
    /\ pre' = Snapshot
    /\ UNCHANGED tvars
    /\ nops' = nops + 1
    /\ UNCHANGED <<compact, handle, faults>>

Get(key) ==
    /\ handle # "closed"
    /\ got' = [key |-> key, ok |-> GetNow(key).ok, val |-> GetNow(key).val]
    /\ UNCHANGED <<disk, compact, orphan, handle, index, result, hist, torn, pre,
                   nops, faults>>
    /\ UNCHANGED tvars
    /\ cursor' = GetCursor(HandleFile, index, key, cursor)

\* close that keeps the handle it had instead of reopening the path, which
\* C14 must tell apart from Close.
CloseKeepsHandle ==
    /\ handle # "closed"
    /\ nops < MaxOps
    /\ \A key \in DOMAIN index : ReadEntry(HandleFile, index[key]).ok
    /\ \E keys \in Orders(DOMAIN index) :
         LET db == close(HandleFile, index, keys, StaleCompact) IN
            /\ disk' = db.file
            /\ index' = db.index
            /\ cursor' = CopyCursor(HandleFile, index, keys, cursor)
    /\ compact' = NoCompact
    /\ orphan' = HandleFile
    /\ handle' = "unlinked"
    /\ torn' = 0
    /\ result' = Res("close", << >>, TRUE, None)
    /\ got' = NoGet
    /\ pre' = Snapshot
    /\ UNCHANGED tvars
    /\ nops' = nops + 1
    /\ UNCHANGED <<hist, faults>>

Close ==
    /\ handle # "closed"
    /\ nops < MaxOps
    /\ \A key \in DOMAIN index : ReadEntry(HandleFile, index[key]).ok
    /\ \E keys \in Orders(DOMAIN index) :
         LET db == close(HandleFile, index, keys, StaleCompact) IN
            /\ disk' = db.file
            /\ index' = db.index
    /\ compact' = NoCompact
    /\ orphan' = << >>
    /\ handle' = "path"
    /\ torn' = 0
    /\ result' = Res("close", << >>, TRUE, None)
    /\ got' = NoGet
    /\ pre' = Snapshot
    /\ UNCHANGED tvars
    /\ nops' = nops + 1
    /\ UNCHANGED <<hist, faults>>
    /\ cursor' = 0

\* drop(db) followed by EmbeddedDatabase::new on the same path.
Reopen ==
    /\ nops < MaxOps
    /\ LET db == new(disk) IN
        /\ index' = db.index
        /\ handle' = IF db.ok THEN "path" ELSE "closed"
        /\ cursor' = IF db.ok THEN Len(disk) ELSE 0
        /\ result' = Res("open", << >>, db.ok, None)
    /\ orphan' = << >>
    /\ got' = NoGet
    /\ pre' = Snapshot
    /\ UNCHANGED tvars
    /\ nops' = nops + 1
    /\ UNCHANGED <<disk, compact, hist, torn, faults>>

Next ==
    \/ \E key \in Keys, val \in Vals : Set(key, val)
    \/ \E key \in Keys : Delete(key)
    \/ \E key \in Keys : Get(key)
    \/ Close
    \/ Reopen

Spec == Init /\ [][Next]_vars

(***************************************************************************)
(* I/O failures and crashes.  write_all may fail after any part of its     *)
(* buffer has reached the file; PartialWrites picks the lengths tried.     *)
(***************************************************************************)
PartialWrites(bytes) ==
    {n \in {0, 3, 8, 13, Len(bytes) - 1} : n < Len(bytes)}

\* set: write_all of the length or of the record fails (lines 99, 102).
SetFail(key, val, n) ==
    /\ handle # "closed"
    /\ nops < MaxOps
    /\ faults < MaxFaults
    /\ n \in PartialWrites(Entry(key, val))
    /\ WriteHandle(HandleFile \o SubSeq(Entry(key, val), 1, n))
    /\ result' = Res("set", key, FALSE, None)
    /\ got' = NoGet
    /\ pre' = Snapshot
    /\ UNCHANGED tvars
    /\ nops' = nops + 1
    /\ faults' = faults + 1
    /\ UNCHANGED <<compact, handle, index, hist>>

\* delete: write_all of the length or of the record fails (lines 148, 149).
DeleteFail(key, n) ==
    /\ handle # "closed"
    /\ nops < MaxOps
    /\ faults < MaxFaults
    /\ n \in PartialWrites(Entry(key, << >>))
    /\ WriteHandle(HandleFile \o SubSeq(Entry(key, << >>), 1, n))
    /\ result' = Res("delete", key, FALSE, None)
    /\ got' = NoGet
    /\ pre' = Snapshot
    /\ UNCHANGED tvars
    /\ nops' = nops + 1
    /\ faults' = faults + 1
    /\ UNCHANGED <<compact, handle, index, hist>>

\* The process dies while set or delete is appending an entry: n bytes of
\* it, at least one and not all, have reached the file (inside the length
\* prefix, exactly the prefix, or part of the record).
Crash(key, val, n) ==
    /\ handle # "closed"
    /\ nops < MaxOps
    /\ faults < MaxFaults
    /\ n \in PartialWrites(Entry(key, val)) \ {0}
    /\ IF handle = "path"
       THEN disk' = disk \o SubSeq(Entry(key, val), 1, n) /\ torn' = n
       ELSE disk' = disk /\ torn' = torn
    /\ orphan' = << >>
    /\ handle' = "closed"
    /\ index' = EmptyIndex
    /\ result' = Res("crash", key, FALSE, None)
    /\ got' = NoGet
    /\ pre' = Snapshot
    /\ UNCHANGED tvars
    /\ nops' = nops + 1
    /\ faults' = faults + 1
    /\ UNCHANGED <<compact, hist>>
    /\ cursor' = 0

\* close: opening the compact file fails (line 169).
CloseFailOpen ==
    /\ handle # "closed"
    /\ nops < MaxOps
    /\ faults < MaxFaults
    /\ result' = Res("close", << >>, FALSE, None)
    /\ got' = NoGet
    /\ pre' = Snapshot
    /\ UNCHANGED tvars
    /\ nops' = nops + 1
    /\ faults' = faults + 1
    /\ UNCHANGED <<disk, compact, orphan, handle, index, hist, torn>>
    /\ UNCHANGED cursor

\* close: after j entries are copied, a seek, read or write of the next one
\* fails with n of its bytes written (lines 189-202).
CloseFailCopy(keys, j, n) ==
    /\ handle # "closed"
    /\ nops < MaxOps
    /\ faults < MaxFaults
    /\ j \in 0..(Len(keys) - 1)
    /\ LET done == Rewrite(HandleFile, index, SubSeq(keys, 1, j), << >>, EmptyIndex)
           e == ReadEntry(HandleFile, index[keys[j + 1]])
       IN /\ n \in PartialWrites(e.lenbuf \o e.buf)
          /\ compact' = [exists |-> TRUE,
                         bytes  |-> Overwrite(StaleCompact,
                                        done.bytes \o SubSeq(e.lenbuf \o e.buf, 1, n))]
    /\ result' = Res("close", << >>, FALSE, None)
    /\ got' = NoGet
    /\ pre' = Snapshot
    /\ UNCHANGED tvars
    /\ nops' = nops + 1
    /\ faults' = faults + 1
    /\ UNCHANGED <<disk, orphan, handle, index, hist, torn>>
    /\ cursor' = CopyCursor(HandleFile, index, SubSeq(keys, 1, j + 1), cursor)

\* close: after j entries are copied, the entry of the next key cannot be
\* read at its recorded offset: seek or read_exact returns an error, which
\* `?` hands to the caller as it is (lines 189-198).
CloseFailRead(keys, j) ==
    /\ handle # "closed"
    /\ nops < MaxOps
    /\ faults < MaxFaults
    /\ j \in 0..(Len(keys) - 1)
    /\ LET done == Rewrite(HandleFile, index, SubSeq(keys, 1, j), << >>, EmptyIndex)
       IN compact' = [exists |-> TRUE,
                      bytes  |-> Overwrite(StaleCompact, done.bytes)]
    /\ result' = Res("close", keys[j + 1], FALSE, None)
    /\ got' = NoGet
    /\ pre' = Snapshot
    /\ UNCHANGED tvars
    /\ nops' = nops + 1
    /\ faults' = faults + 1
    /\ UNCHANGED <<disk, orphan, handle, index, hist, torn>>
    /\ cursor' = CopyCursor(HandleFile, index, SubSeq(keys, 1, j), cursor)

\* close: every entry is copied and the rename fails (line 210).
CloseFailRename(keys) ==
    /\ handle # "closed"
    /\ nops < MaxOps
    /\ faults < MaxFaults
    /\ compact' = [exists |-> TRUE,
                   bytes  |-> close(HandleFile, index, keys, StaleCompact).file]
    /\ result' = Res("close", << >>, FALSE, None)
    /\ got' = NoGet
    /\ pre' = Snapshot
    /\ UNCHANGED tvars
    /\ nops' = nops + 1
    /\ faults' = faults + 1
    /\ UNCHANGED <<disk, orphan, handle, index, hist, torn>>
    /\ cursor' = CopyCursor(HandleFile, index, keys, cursor)

\* close: the rename succeeds and reopening the path fails (line 214);
\* self.file still refers to the file the rename unlinked.
CloseFailReopen(keys) ==
    /\ handle # "closed"
    /\ nops < MaxOps
    /\ faults < MaxFaults
    /\ disk' = close(HandleFile, index, keys, StaleCompact).file
    /\ compact' = NoCompact
    /\ orphan' = HandleFile
    /\ handle' = "unlinked"
    /\ torn' = 0
    /\ result' = Res("close", << >>, FALSE, None)
    /\ got' = NoGet
    /\ pre' = Snapshot
    /\ UNCHANGED tvars
    /\ nops' = nops + 1
    /\ faults' = faults + 1
    /\ UNCHANGED <<index, hist>>
    /\ cursor' = CopyCursor(HandleFile, index, keys, cursor)

NextFault ==
    \/ Next
    \/ \E key \in Keys, val \in Vals :
          \E n \in PartialWrites(Entry(key, val)) : SetFail(key, val, n)
    \/ \E key \in Keys :
          \E n \in PartialWrites(Entry(key, << >>)) : DeleteFail(key, n)
    \/ \E key \in Keys, val \in Vals :
          \E n \in PartialWrites(Entry(key, val)) : Crash(key, val, n)
    \/ CloseFailOpen
    \/ \E keys \in Orders(DOMAIN index) :
          \E j \in 0..(Len(keys) - 1), n \in {0, 3, 8, 13} : CloseFailCopy(keys, j, n)
    \/ \E keys \in Orders(DOMAIN index) :
          \E j \in 0..(Len(keys) - 1) : CloseFailRead(keys, j)
    \/ \E keys \in Orders(DOMAIN index) : CloseFailRename(keys)
    \/ \E keys \in Orders(DOMAIN index) : CloseFailReopen(keys)

FaultSpec == Init /\ [][NextFault]_vars

(***************************************************************************)
(* ThreadSafeDB::set, get, delete and close, a step at a time: the call    *)
(* waits in Mutex::lock, runs the engine's method while it holds the       *)
(* guard, and drops the guard as it returns.                               *)
(***************************************************************************)
Calls ==
    {[NoCall EXCEPT !.op = "set", !.key = k, !.val = v] : k \in Keys, v \in Vals}
    \cup {[NoCall EXCEPT !.op = o, !.key = k] : o \in {"get", "delete"}, k \in Keys}
    \cup {[NoCall EXCEPT !.op = "close"]}

InBody == {"locked", "len", "appended", "copied", "renamed", "reopened"}

\* lock() handing out the guard of a poisoned mutex, which C13 must tell
\* apart from lock.
lockIgnoresPoison(m) ==
    IF m.owner # NoThread THEN "WouldBlock" ELSE "Locked"

\* lock() that does not wait for the guard to be dropped, which C12 must
\* tell apart from lock.
lockNotExclusive(m) ==
    IF m.poisoned THEN "Poisoned" ELSE "Locked"

\* self.db.lock(): blocks while another thread holds the guard, fails when
\* a thread panicked holding it.
lock(m) ==
    IF m.owner # NoThread THEN "WouldBlock"
    ELSE IF m.poisoned THEN "Poisoned"
    ELSE "Locked"

\* One call run whole on the reference engine.
SerialStep(file, idx, c, stale) ==
    IF c.op = "set" THEN set(file, idx, c.key, c.val)
    ELSE IF c.op = "delete" THEN delete(file, idx, c.key)
    ELSE IF c.op = "close" THEN close(file, idx, c.keys, stale)
    ELSE [file |-> file, index |-> idx]

\* A thread calls a method of its clone.
Call(t, c) ==
    /\ handle # "closed"
    /\ pc[t] = "idle"
    /\ nops < MaxCalls
    /\ call' = [call EXCEPT ![t] = c]
    /\ ret' = [ret EXCEPT ![t] = Res("none", << >>, TRUE, None)]
    /\ pc' = [pc EXCEPT ![t] = "waiting"]
    /\ nops' = nops + 1
    /\ UNCHANGED <<disk, compact, orphan, handle, index, result, got, hist, torn,
                   pre, faults, mutex, closing, serial>>
    /\ UNCHANGED cursor

\* lock() returns the guard.  close will iterate the keys of the index in
\* some order.
Acquire(t) ==
    /\ pc[t] = "waiting"
    /\ lock(mutex) = "Locked"
    /\ \E keys \in (IF call[t].op = "close" THEN Orders(DOMAIN index) ELSE {<< >>}) :
         LET c == [call[t] EXCEPT !.keys = keys, !.before = index]
             db == SerialStep(serial.file, serial.index, c, StaleCompact)
         IN /\ call' = [call EXCEPT ![t] = c]
            /\ serial' = [file |-> db.file, index |-> db.index,
                          expect |-> [serial.expect EXCEPT ![t] =
                                        IF c.op = "get"
                                        THEN get(serial.file, serial.index, c.key)
                                        ELSE [ok |-> TRUE, val |-> None]],
                          crash |-> NoCall, crashpc |-> "idle"]
    /\ mutex' = [mutex EXCEPT !.owner = t]
    /\ pc' = [pc EXCEPT ![t] = "locked"]
    /\ UNCHANGED <<disk, compact, orphan, handle, index, result, got, hist, torn,
                   pre, nops, faults, ret, closing>>
    /\ UNCHANGED cursor

\* lock() returns PoisonError, mapped to DbError::MutexLockError and
\* returned by `?`.
LockFail(t) ==
    /\ pc[t] = "waiting"
    /\ lock(mutex) = "Poisoned"
    /\ ret' = [ret EXCEPT ![t] =
                 [Res(call[t].op, << >>, FALSE, None)
                    EXCEPT !.err = "MutexLockError"]]
    /\ call' = [call EXCEPT ![t] = NoCall]
    /\ pc' = [pc EXCEPT ![t] = "idle"]
    /\ UNCHANGED <<disk, compact, orphan, handle, index, result, got, hist, torn,
                   pre, nops, faults, mutex, closing, serial>>
    /\ UNCHANGED cursor

\* set and delete changing the index before the record is written, which
\* C18 must tell apart from WriteLen.
WriteLenUpdatesIndex(t) ==
    /\ pc[t] = "locked"
    /\ call[t].op \in {"set", "delete"}
    /\ WriteHandle(HandleFile \o to_le_bytes(Len(serialize(call[t].key, call[t].val))))
    /\ index' = IF call[t].op = "set"
                THEN insert(index, call[t].key, Len(HandleFile))
                ELSE remove(index, call[t].key)
    /\ call' = [call EXCEPT ![t].position = Len(HandleFile)]
    /\ pc' = [pc EXCEPT ![t] = "len"]
    /\ UNCHANGED <<compact, handle, result, got, hist, pre, nops, faults,
                   mutex, ret, closing, serial>>

\* set, delete: seek to the end and write the length of the record.
WriteLen(t) ==
    /\ pc[t] = "locked"
    /\ call[t].op \in {"set", "delete"}
    /\ WriteHandle(HandleFile \o to_le_bytes(Len(serialize(call[t].key, call[t].val))))
    /\ call' = [call EXCEPT ![t].position = Len(HandleFile)]
    /\ pc' = [pc EXCEPT ![t] = "len"]
    /\ UNCHANGED <<compact, handle, index, result, got, hist, pre, nops, faults,
                   mutex, ret, closing, serial>>

\* set, delete: write the record.
WriteRecord(t) ==
    /\ pc[t] = "len"
    /\ WriteHandle(HandleFile \o serialize(call[t].key, call[t].val))
    /\ pc' = [pc EXCEPT ![t] = "appended"]
    /\ UNCHANGED <<compact, handle, index, result, got, hist, pre, nops, faults,
                   mutex, call, ret, closing, serial>>

\* set, delete: update the index and return, dropping the guard.
UpdateIndex(t) ==
    /\ pc[t] = "appended"
    /\ index' = IF call[t].op = "set"
                THEN insert(index, call[t].key, call[t].position)
                ELSE remove(index, call[t].key)
    /\ ret' = [ret EXCEPT ![t] =
                 Res(call[t].op, call[t].key, TRUE,
                     IF call[t].op = "set" THEN Some(call[t].val) ELSE None)]
    /\ mutex' = [mutex EXCEPT !.owner = NoThread]
    /\ call' = [call EXCEPT ![t] = NoCall]
    /\ pc' = [pc EXCEPT ![t] = "idle"]
    /\ UNCHANGED <<disk, compact, orphan, handle, result, got, hist, torn, pre,
                   nops, faults, closing, serial>>
    /\ UNCHANGED cursor

\* get: read the entry of the key and return, dropping the guard.
Read(t) ==
    /\ pc[t] = "locked"
    /\ call[t].op = "get"
    /\ ret' = [ret EXCEPT ![t] =
                 Res("get", call[t].key, GetNow(call[t].key).ok,
                     GetNow(call[t].key).val)]
    /\ mutex' = [mutex EXCEPT !.owner = NoThread]
    /\ call' = [call EXCEPT ![t] = NoCall]
    /\ pc' = [pc EXCEPT ![t] = "idle"]
    /\ UNCHANGED <<disk, compact, orphan, handle, index, result, got, hist, torn,
                   pre, nops, faults, closing, serial>>
    /\ cursor' = GetCursor(HandleFile, index, call[t].key, cursor)

\* close: copy the entry of every key of the index to the compact file.
Copy(t) ==
    /\ pc[t] = "locked"
    /\ call[t].op = "close"
    /\ LET r == Rewrite(HandleFile, index, call[t].keys, << >>, EmptyIndex) IN
        /\ compact' = [exists |-> TRUE, bytes |-> Overwrite(StaleCompact, r.bytes)]
        /\ closing' = [compact_index |-> r.index]
    /\ pc' = [pc EXCEPT ![t] = "copied"]
    /\ UNCHANGED <<disk, orphan, handle, index, result, got, hist, torn, pre,
                   nops, faults, mutex, call, ret, serial>>
    /\ cursor' = CopyCursor(HandleFile, index, call[t].keys, cursor)

\* close dropping the guard once the rename is done, before it reopens the
\* path and replaces the index, which C19 must tell apart from Rename.
RenameDropsGuard(t) ==
    /\ pc[t] = "copied"
    /\ disk' = compact.bytes
    /\ compact' = NoCompact
    /\ orphan' = HandleFile
    /\ handle' = "unlinked"
    /\ torn' = 0
    /\ mutex' = [mutex EXCEPT !.owner = NoThread]
    /\ pc' = [pc EXCEPT ![t] = "renamed"]
    /\ UNCHANGED <<index, result, got, hist, pre, nops, faults, call, ret,
                   closing, serial>>
    /\ UNCHANGED cursor

\* close: rename the compact file onto the path; self.file still refers to
\* the file that was there.
Rename(t) ==
    /\ pc[t] = "copied"
    /\ disk' = compact.bytes
    /\ compact' = NoCompact
    /\ orphan' = HandleFile
    /\ handle' = "unlinked"
    /\ torn' = 0
    /\ pc' = [pc EXCEPT ![t] = "renamed"]
    /\ UNCHANGED <<index, result, got, hist, pre, nops, faults, mutex, call, ret,
                   closing, serial>>
    /\ UNCHANGED cursor

\* close: open the path again.
ReopenFile(t) ==
    /\ pc[t] = "renamed"
    /\ handle' = "path"
    /\ orphan' = << >>
    /\ pc' = [pc EXCEPT ![t] = "reopened"]
    /\ UNCHANGED <<disk, compact, index, result, got, hist, torn, pre, nops,
                   faults, mutex, call, ret, closing, serial>>
    /\ cursor' = 0

\* close: replace the index and return, dropping the guard.
SwapIndex(t) ==
    /\ pc[t] = "reopened"
    /\ index' = closing.compact_index
    /\ closing' = [compact_index |-> EmptyIndex]
    /\ ret' = [ret EXCEPT ![t] = Res("close", << >>, TRUE, None)]
    /\ mutex' = [mutex EXCEPT !.owner = NoThread]
    /\ call' = [call EXCEPT ![t] = NoCall]
    /\ pc' = [pc EXCEPT ![t] = "idle"]
    /\ UNCHANGED <<disk, compact, orphan, handle, result, got, hist, torn, pre,
                   nops, faults, serial>>
    /\ UNCHANGED cursor

NextThread ==
    \E t \in Threads :
        \/ \E c \in Calls : Call(t, c)
        \/ Acquire(t)
        \/ WriteLen(t)
        \/ WriteRecord(t)
        \/ UpdateIndex(t)
        \/ Read(t)
        \/ Copy(t)
        \/ Rename(t)
        \/ ReopenFile(t)
        \/ SwapIndex(t)

ThreadSpec == Init /\ [][NextThread]_vars

\* A thread panics inside the engine's method: unwinding drops the guard
\* and poisons the mutex.
Panic(t) ==
    /\ pc[t] \in InBody
    /\ faults < MaxFaults
    /\ mutex' = [owner |-> NoThread, poisoned |-> TRUE]
    /\ pc' = [pc EXCEPT ![t] = "panicked"]
    /\ faults' = faults + 1
    /\ UNCHANGED <<disk, compact, orphan, handle, index, result, got, hist, torn,
                   pre, nops, call, ret, closing, serial>>
    /\ UNCHANGED cursor

NextPanic ==
    \/ NextThread
    \/ \E t \in Threads : LockFail(t)
    \/ \E t \in Threads : Panic(t)

PanicSpec == Init /\ [][NextPanic]_vars

\* The process dies while thread t is inside the engine's method, and a new
\* process opens the path.
ProcessCrash(t) ==
    /\ pc[t] \in InBody
    /\ faults < MaxFaults
    /\ LET db == new(disk) IN
        /\ index' = db.index
        /\ handle' = IF db.ok THEN "path" ELSE "closed"
        /\ cursor' = IF db.ok THEN Len(disk) ELSE 0
        /\ serial' = [file |-> disk, index |-> db.index,
                      expect |-> NoSerial.expect,
                      crash |-> call[t], crashpc |-> pc[t]]
    /\ orphan' = << >>
    /\ mutex' = [owner |-> NoThread, poisoned |-> FALSE]
    /\ pc' = [u \in Threads |-> "idle"]
    /\ call' = [u \in Threads |-> NoCall]
    /\ ret' = [u \in Threads |-> Res("none", << >>, TRUE, None)]
    /\ closing' = [compact_index |-> EmptyIndex]
    /\ faults' = faults + 1
    /\ UNCHANGED <<disk, compact, result, got, hist, torn, pre, nops>>

NextCrash ==
    \/ NextThread
    \/ \E t \in Threads : ProcessCrash(t)

CrashSpec == Init /\ [][NextCrash]_vars

(***************************************************************************)
(* Definitions the properties are stated with.                             *)
(***************************************************************************)
Found(v) == [ok |-> TRUE, val |-> Some(v)]

NotFound == [ok |-> TRUE, val |-> None]

IsOk(r, op) == r.op = op /\ r.ok

\* The (key, value) pairs visible via get on the engine.
Visible == {<<k, GetNow(k)>> : k \in DOMAIN index}

PreVisible == {<<k, PreGet(k)>> : k \in DOMAIN pre.index}

\* The Log Entries of a file, in file order.
RECURSIVE Entries(_, _)
Entries(file, position) ==
    LET e == ReadEntry(file, position) IN
    IF ~e.ok \/ ~deserialize(e.buf).ok THEN << >>
    ELSE << [off |-> position, len |-> 8 + e.len,
             key |-> deserialize(e.buf).key, val |-> deserialize(e.buf).val] >>
         \o Entries(file, position + 8 + e.len)

\* A dead entry: a tombstone, or a record superseded by a later entry.
HasDead(file) ==
    LET es == Entries(file, 0) IN
    \E i \in 1..Len(es) :
        \/ es[i].val = << >>
        \/ \E j \in (i + 1)..Len(es) : es[j].key = es[i].key

(***************************************************************************)
(* C1: after any sequence of successful set, delete and close, get(key)    *)
(* returns the value of the most recent set(key, val) with non-empty val,  *)
(* and not-found when a delete(key) came after that set or when the key    *)
(* was never set.  (A key whose only sets had an empty value, and a key    *)
(* whose latest live value was followed by a set of the empty value with   *)
(* no delete, are left unconstrained.)                                     *)
(***************************************************************************)
C1_GetReturnsLatestSet ==
    handle # "closed" =>
        \A k \in Keys :
            LET h == hist[k] IN
            /\ (h.set # None /\ ~h.del /\ ~h.emp) => GetNow(k) = [ok |-> TRUE, val |-> h.set]
            /\ (h.set # None /\ h.del) => GetNow(k) = NotFound
            /\ (h.set = None /\ ~h.emp) => GetNow(k) = NotFound

(***************************************************************************)
(* C2 as claimed: for every key and ALL values v1, v2, after set(key, v1)  *)
(* then set(key, v2), get(key) returns v2 on the same engine and on a new  *)
(* engine opened on the same path.                                         *)
(***************************************************************************)
C2_LastWriteWinsAllValues ==
    (IsOk(pre.result, "set") /\ IsOk(result, "set") /\ result.key = pre.result.key)
    => /\ GetNow(result.key) = [ok |-> TRUE, val |-> result.val]
       /\ GetReopened(result.key) = [ok |-> TRUE, val |-> result.val]

(***************************************************************************)
(* C2 amended: the same for every key, all v1 and all NON-EMPTY v2.        *)
(***************************************************************************)
C2_LastWriteWins ==
    (IsOk(pre.result, "set") /\ IsOk(result, "set") /\ result.key = pre.result.key
     /\ result.val # Some(<< >>))
    => /\ GetNow(result.key) = [ok |-> TRUE, val |-> result.val]
       /\ GetReopened(result.key) = [ok |-> TRUE, val |-> result.val]

\* set(a, "x") then set(a, "yz") have run, and both engines return "yz".
C2_Witness ==
    /\ pre.result = Res("set", KeyA, TRUE, Some(ValX))
    /\ result = Res("set", KeyA, TRUE, Some(ValYZ))
    /\ disk = Entry(KeyA, ValX) \o Entry(KeyA, ValYZ)
    /\ GetNow(KeyA) = Found(ValYZ)
    /\ GetReopened(KeyA) = Found(ValYZ)

(***************************************************************************)
(* C3: after delete(key), get(key) returns not-found on the engine and on  *)
(* an engine reopened on the path, with or without a close in between,     *)
(* until a later set(key, non-empty).                                      *)
(***************************************************************************)
C3_DeletedStaysNotFound ==
    handle # "closed" =>
        \A k \in Keys :
            hist[k].del => GetNow(k) = NotFound /\ GetReopened(k) = NotFound

(***************************************************************************)
(* C4: the (key, value) pairs visible via get immediately after a          *)
(* successful close() are those visible immediately before it.             *)
(***************************************************************************)
C4_ClosePreservesVisible ==
    IsOk(result, "close") => Visible = PreVisible

\* A close has compacted a log holding a superseded record and a tombstone.
C4_Witness ==
    /\ IsOk(result, "close")
    /\ HasDead(pre.disk)
    /\ hist[KeyB].set # None /\ hist[KeyB].del
    /\ Visible = {<<KeyA, Found(ValYZ)>>}
    /\ disk = Entry(KeyA, ValYZ)

(***************************************************************************)
(* C5: after every successful close() the file at the path is no larger    *)
(* than before, and strictly smaller whenever the log held a dead entry    *)
(* (a superseded record or a tombstone).                                   *)
(***************************************************************************)
C5_CloseShrinksFile ==
    IsOk(result, "close")
    => /\ Len(disk) <= Len(pre.disk)
       /\ HasDead(pre.disk) => Len(disk) < Len(pre.disk)

(***************************************************************************)
(* C7: after a successful close() and a reopen of the path, get returns    *)
(* for every key what it returned on the original engine before the close. *)
(***************************************************************************)
C7_CloseThenReopenSameGets ==
    IsOk(result, "close") => \A k \in Keys : GetReopened(k) = PreGet(k)

(***************************************************************************)
(* C6: after every successful close(), also one that follows a close()     *)
(* that failed part-way, the file at the path consists of exactly one Log  *)
(* Entry for each key in the index and nothing else: every entry of the    *)
(* file is the one the index holds for its key, and no bytes follow the    *)
(* last of them.  (The claim adds that none of these entries is a          *)
(* tombstone.)                                                             *)
(***************************************************************************)
C6_FileIsExactlyIndexEntries ==
    IsOk(result, "close") =>
        LET es == Entries(disk, 0) IN
        /\ Len(es) = Cardinality(DOMAIN index)
        /\ \A i \in 1..Len(es) :
              /\ es[i].key \in DOMAIN index
              /\ index[es[i].key] = es[i].off
        /\ IF es = << >> THEN Len(disk) = 0
           ELSE Len(disk) = es[Len(es)].off + es[Len(es)].len

(***************************************************************************)
(* C8: if close() returns an error, the file at the path and the index are *)
(* what they were before the call, and a later set on that engine is       *)
(* visible on the engine and after a reopen of the path.                   *)
(***************************************************************************)
C8_FailedCloseChangesNothing ==
    /\ (result.op = "close" /\ ~result.ok)
       => disk = pre.disk /\ index = pre.index
    /\ (pre.result.op = "close" /\ ~pre.result.ok /\ IsOk(result, "set")
        /\ result.val # Some(<< >>))
       => /\ GetNow(result.key) = [ok |-> TRUE, val |-> result.val]
          /\ GetReopened(result.key) = [ok |-> TRUE, val |-> result.val]

(***************************************************************************)
(* C9: opening a log whose final entry was torn by a crash mid-append, at  *)
(* any byte of that entry, returns no error, and the index is that of the  *)
(* complete entries before the torn one.                                   *)
(***************************************************************************)
C9_TornTailIgnored ==
    (result.op = "open" /\ torn > 0)
    => /\ result.ok
       /\ index = new(SubSeq(disk, 1, Len(disk) - torn)).index

(***************************************************************************)
(* C10: a set or delete that returns an error leaves the log file and the  *)
(* index as they were before the call.                                     *)
(***************************************************************************)
C10_FailedMutationChangesNothing ==
    (result.op \in {"set", "delete"} /\ ~result.ok)
    => disk = pre.disk /\ orphan = pre.orphan /\ index = pre.index

C16_IndexHoldsLiveKeys ==
    handle # "closed"
    => \A k \in Keys :
         IF k \in DOMAIN index
         THEN /\ GetNow(k).ok
              /\ GetNow(k).val # Some(<< >>)
              /\ GetNow(k).val = hist[k].set
              /\ ~hist[k].del /\ ~hist[k].emp
         ELSE hist[k].set = None \/ hist[k].del \/ hist[k].emp

(***************************************************************************)
(* C17: in every state between operations, replaying the log file from     *)
(* offset 0 the way open does yields exactly the in-memory index: the same *)
(* keys at the same offsets.                                               *)
(***************************************************************************)
C17_IndexIsReplayOfLog ==
    handle = "path" => new(disk).ok /\ new(disk).index = index

(***************************************************************************)
(* C20: delete(key) for a key that is not in the index returns success,    *)
(* appends exactly one tombstone entry for the key to the log, and leaves  *)
(* the index as it was.                                                    *)
(***************************************************************************)
C20_DeleteAbsentAppendsTombstone ==
    (result.op = "delete" /\ result.key \notin DOMAIN pre.index)
    => /\ result.ok
       /\ HandleFile = PreFile \o Entry(result.key, << >>)
       /\ deserialize(ReadEntry(HandleFile, Len(PreFile)).buf)
            = [ok |-> TRUE, key |-> result.key, val |-> << >>]
       /\ index = pre.index

C20_Witness ==
    /\ IsOk(result, "delete")
    /\ result.key = KeyB
    /\ KeyB \notin DOMAIN pre.index
    /\ KeyA \in DOMAIN index
    /\ Len(disk) = Len(pre.disk) + Len(Entry(KeyB, << >>))

(***************************************************************************)
(* C15: when close() cannot read the entry of a key of the index at its    *)
(* recorded offset, it fails with the CompactionKeyNotFound error for that *)
(* key; and a close() that returns success has copied an entry for every   *)
(* key the index held.                                                     *)
(***************************************************************************)
C15_UnreadableEntryIsKeyNotFound ==
    /\ (result.op = "close" /\ ~result.ok /\ result.key # << >>)
       => result.err = "CompactionKeyNotFound"
    /\ IsOk(result, "close")
       => \A k \in DOMAIN pre.index :
             \E i \in 1..Len(Entries(disk, 0)) : Entries(disk, 0)[i].key = k

(***************************************************************************)
(* C11: for threads sharing one ThreadSafeDB, whenever no call is running  *)
(* the file and the index are those of running the calls made so far one   *)
(* at a time in the order they acquired the lock; every get that returned  *)
(* returned what it returns in that one-at-a-time run (so a thread's get   *)
(* after its own set of a key no other thread writes returns that value);  *)
(* and a call that waits for the lock waits for a thread that is running.  *)
(***************************************************************************)
C11_SerialInLockOrder ==
    /\ mutex.owner = NoThread
       => handle = "path" /\ disk = serial.file /\ index = serial.index
    /\ \A t \in Threads :
         (pc[t] = "idle" /\ ret[t].op = "get")
         => [ok |-> ret[t].ok, val |-> ret[t].val] = serial.expect[t]
    /\ \A t \in Threads :
         pc[t] = "waiting"
         => mutex.owner = NoThread \/ pc[mutex.owner] \in InBody

C11_Witness ==
    /\ \A t \in Threads : pc[t] = "idle"
    /\ ret["t1"] = Res("get", KeyA, TRUE, Some(ValX))
    /\ ret["t2"] = Res("set", KeyB, TRUE, Some(ValYZ))
    /\ DOMAIN index = {KeyA, KeyB}
    /\ index[KeyA] < index[KeyB]

(***************************************************************************)
(* C12: at no time are two threads inside an engine operation of the same  *)
(* ThreadSafeDB, and a thread holds the lock in every state from before    *)
(* its operation's first access to the file or index until its last one.   *)
(***************************************************************************)
C12_MutualExclusion ==
    /\ \A t, u \in Threads : (pc[t] \in InBody /\ pc[u] \in InBody) => t = u
    /\ \A t \in Threads : pc[t] \in InBody <=> mutex.owner = t

C12_Witness ==
    /\ pc["t1"] = "len"
    /\ call["t1"].op = "set"
    /\ pc["t2"] = "waiting"
    /\ call["t2"].op = "get"
    /\ mutex.owner = "t1"

(***************************************************************************)
(* C19: while close() runs on a shared ThreadSafeDB, from the start of the *)
(* rewrite until both the file handle and the index are replaced, no other *)
(* thread is inside get, set or delete; whenever one of these runs, the    *)
(* handle is on the file at the path and every offset of the index is the  *)
(* start of an entry of that file for that key.                            *)
(***************************************************************************)
C19_CloseNotInterleaved ==
    /\ \A t, u \in Threads :
         (pc[t] \in InBody /\ call[t].op = "close" /\ u # t) => pc[u] \notin InBody
    /\ \A u \in Threads :
         (pc[u] \in InBody /\ call[u].op # "close")
         => /\ handle = "path"
            /\ \A k \in DOMAIN index :
                 /\ ReadEntry(disk, index[k]).ok
                 /\ deserialize(ReadEntry(disk, index[k]).buf).key = k

C19_Witness ==
    /\ pc["t1"] = "renamed"
    /\ handle = "unlinked"
    /\ DOMAIN index = {KeyA}
    /\ pc["t2"] = "waiting"
    /\ call["t2"].op = "get"

(***************************************************************************)
(* C13: once a thread has panicked while holding the lock, no step changes *)
(* the files, the handle or the index, no thread enters an engine          *)
(* operation, every call that returns returns MutexLockError, and no other *)
(* thread panics.                                                          *)
(***************************************************************************)
C13_PoisonedLockFails ==
    [][mutex.poisoned
       => /\ disk' = disk /\ compact' = compact /\ orphan' = orphan
          /\ handle' = handle /\ index' = index
          /\ \A t \in Threads :
               /\ pc'[t] \notin InBody
               /\ pc'[t] = "panicked" => pc[t] = "panicked"
               /\ (pc[t] = "waiting" /\ pc'[t] # "waiting")
                  => pc'[t] = "idle" /\ ret'[t].ok = FALSE
                     /\ ret'[t].err = "MutexLockError"
                     /\ ret'[t].op = call[t].op]_vars

C13_Witness ==
    /\ mutex.poisoned
    /\ pc["t1"] = "panicked"
    /\ call["t1"].op = "set"
    /\ pc["t2"] = "idle"
    /\ ret["t2"].op = "get"
    /\ ret["t2"].err = "MutexLockError"
    /\ DOMAIN index = {KeyB}

\* A thread is inside close().
CloseRunning ==
    \E t \in Threads : call[t].op = "close" /\ pc[t] \notin {"idle", "waiting"}

(***************************************************************************)
(* C18: in set and delete the entry is appended in full before the index   *)
(* is changed: while the entry is not completely in the log the index is   *)
(* the one the call found, and outside close() every offset of the index   *)
(* is the start of a complete entry for its key; when the process dies     *)
(* after the append and before the index update and the path is opened     *)
(* again, the index includes the mutation (the key at the offset of the    *)
(* appended entry, or absent for a delete or an empty value).              *)
(***************************************************************************)
C18_AppendBeforeIndex ==
    /\ \A t \in Threads :
         (pc[t] \in {"locked", "len"} /\ call[t].op \in {"set", "delete"})
         => index = call[t].before
    /\ ~CloseRunning
       => \A k \in DOMAIN index :
             /\ ReadEntry(HandleFile, index[k]).ok
             /\ deserialize(ReadEntry(HandleFile, index[k]).buf).key = k
    /\ (serial.crashpc = "appended" /\ serial.crash.op \in {"set", "delete"})
       => /\ handle = "path"
          /\ IF serial.crash.op = "set" /\ serial.crash.val # << >>
             THEN /\ serial.crash.key \in DOMAIN index
                  /\ index[serial.crash.key] = serial.crash.position
                  /\ GetNow(serial.crash.key) = Found(serial.crash.val)
             ELSE serial.crash.key \notin DOMAIN index

C18_Witness ==
    /\ serial.crashpc = "appended"
    /\ serial.crash.op = "set"
    /\ serial.crash.key = KeyA
    /\ serial.crash.val = ValX
    /\ serial.crash.position > 0
    /\ GetNow(KeyA) = Found(ValX)
    /\ KeyB \in DOMAIN index

(***************************************************************************)
(* C21: between compactions the log is append-only: a successful set or    *)
(* delete leaves the file as it was followed by the new entry, wherever    *)
(* the file stood before the call, so the file grows by exactly 8 + the    *)
(* length of the record and no byte it held changes; get changes neither   *)
(* the files nor the index.                                                *)
(***************************************************************************)
C21_AppendOnly ==
    [][/\ (result'.op \in {"set", "delete"} /\ result'.ok /\ nops' = nops + 1)
          => LET val == IF result'.op = "set" THEN result'.val[1] ELSE << >>
             IN /\ handle' = handle
                /\ HandleFile' = HandleFile \o Entry(result'.key, val)
                /\ Len(HandleFile')
                     = Len(HandleFile) + 8 + Len(serialize(result'.key, val))
                /\ SubSeq(HandleFile', 1, Len(HandleFile)) = HandleFile
       /\ got'.key # << >>
          => /\ disk' = disk /\ orphan' = orphan /\ compact' = compact
             /\ handle' = handle /\ index' = index]_vars

C21_Witness ==
    /\ IsOk(result, "set")
    /\ pre.cursor > 0
    /\ pre.cursor < Len(pre.disk)
    /\ disk = pre.disk \o Entry(result.key, result.val[1])
    /\ Cardinality(DOMAIN index) = 2

(***************************************************************************)
(* C22: when no operation is running, every offset in the index is the     *)
(* start of a complete entry (length prefix and record) that lies wholly   *)
(* inside the file the engine has open, and the key decoded from that      *)
(* record is the key the offset is stored under; a get of an indexed key   *)
(* returns the value of the record at that offset.                         *)
(***************************************************************************)
C22_IndexOffsetsAreEntries ==
    /\ \A key \in DOMAIN index :
          LET e == ReadEntry(HandleFile, index[key])
              record == deserialize(e.buf)
          IN /\ e.ok
             /\ index[key] + 8 + e.len <= Len(HandleFile)
             /\ record.ok
             /\ record.key = key
    /\ got.key \in DOMAIN index
          => /\ got.ok
             /\ got.val = Some(deserialize(
                    ReadEntry(HandleFile, index[got.key]).buf).val)

C22_Witness ==
    /\ IsOk(result, "close")
    /\ Cardinality(DOMAIN index) = 2
    /\ Len(disk) < Len(pre.disk)
    /\ \E key \in DOMAIN index : index[key] > 0
    /\ got.key \in DOMAIN index

====
